---- MODULE Spec2Model ----
(***************************************************************************)
(* Model of scrape_async.py: the in-stock checker.  One process run loads  *)
(* config.json, launches one asyncio task per product                      *)
(* (get_all_product_pages), each task downloads the product page, extracts *)
(* the add-to-cart button state and, for ADD_TO_CART, calls notify(), which*)
(* walks the product's SNS topics: get_item -> publish -> put_item.        *)
(* The DynamoDB table, the SNS endpoint, the HTTP server and the clock are *)
(* the environment: every call to them picks one of its possible outcomes. *)
(***************************************************************************)
EXTENDS Integers, Sequences, FiniteSets, TLC

VARIABLES now, table, lastPub, main, exit_code, disk, cfgfile,
          config, tasks, running

vars == <<now, table, lastPub, main, exit_code, disk, cfgfile,
          config, tasks, running>>

\* ---------------------------------------------------------------- bounds
MaxTicks == 1

\* ------------------------------------------------------ program constants
IN_STOCK_EXP == 3600
ReturnExceptions_false == FALSE

\* line 107: gather(*tasks, return_exceptions=True)
ReturnExceptions == TRUE

\* ------------------------------------------------------------- universes
Procs == {"p1", "p2"}
NoItem == -1
NoTime == -1
TickSteps == {IN_STOCK_EXP, IN_STOCK_EXP + 1}

\* the contents config.json can have: a product list (two products watching
\* the same page, one of them with two topics), a file that cannot be opened
\* or parsed, and a JSON document without "products"
ConfigA == << [title |-> "A", url |-> "u1", snsTopicArns |-> <<"t1", "t2">>],
              [title |-> "B", url |-> "u1", snsTopicArns |-> <<"t1">>] >>
CONFIG_FILE == {"A", "unreadable", "no_products"}
Urls == {"u1"}
Arns == {"t1", "t2"}
Keys == Urls \X Arns

\* the page bodies the server can return, by the features the regexes and
\* the JSON parse look at
Bodies ==
  { [component |-> FALSE, data |-> FALSE, json |-> "none"],
    [component |-> TRUE,  data |-> FALSE, json |-> "none"] } \cup
  { [component |-> TRUE, data |-> TRUE, json |-> j] :
      j \in {"malformed", "no_buttonState", "ADD_TO_CART", "CHECK_STORES",
             "SOLD_OUT"} }
NoBody == [component |-> FALSE, data |-> FALSE, json |-> "unread"]

\* ------------------------------------------------------- pure operators
\* json.load(fin) of config.json
LoadConfig(f) ==
  IF f = "A" THEN ConfigA ELSE << >>

\* the try/except around open + json.load
ConfigLoads(f) == f # "unreadable"

\* config["products"] on the loaded document
HasProducts(f) == f = "A"

\* lines 87-92: what the extraction yields: "skip" when a regex does not
\* match, the raised exception, or the button state
Extract(body) ==
  IF ~body.component THEN "skip"
  ELSE IF ~body.data THEN "skip"
  ELSE IF body.json = "malformed" THEN "JSONDecodeError"
  ELSE IF body.json = "no_buttonState" THEN "KeyError"
  ELSE body.json

Exceptions == {"TimeoutError", "ClientError", "JSONDecodeError", "KeyError",
               "UnboundLocalError"}

CallsNotify_always(button_state) == TRUE

CallsNotify_checkStores(button_state) ==
  button_state \in {"ADD_TO_CART", "CHECK_STORES"}

\* line 94
CallsNotify(button_state) == button_state = "ADD_TO_CART"

\* lines 87-95: the availability the unit acts on: no match of a regex is
\* Unknown, ADD_TO_CART is Available, another button state is Unavailable; a
\* parse that raises yields the exception
Availability(body) ==
  LET x == Extract(body)
  IN  IF x = "skip" THEN "Unknown"
      ELSE IF x \in Exceptions THEN x
      ELSE IF CallsNotify(x) THEN "Available"
      ELSE "Unavailable"

\* line 96: the only exception get_product_page catches
CaughtByUnit(exc) == exc = "TimeoutError"

ItemIsNone_orExpired(item, t) == item = NoItem \/ item <= t

ItemIsNone_orPast(item, t) == item = NoItem \/ item < t

\* line 48
ItemIsNone(item, t) == item = NoItem

\* line 61
NewInStock_noWindow(t) == t

\* lines 60-61: the inStock time of a record written at clock second t
NewInStock(t) == t + IN_STOCK_EXP

\* line 105: a fresh task for one product
NewTask(product) ==
  [pc |-> "scheduled", result |-> "pending", product |-> product,
   fetch |-> "none", body |-> NoBody, k |-> 1, ops |-> << >>]

MakeTasks_dropLast(products) ==
  [i \in 1..(Len(products) - 1) |-> NewTask(products[i])]

\* lines 103-106
MakeTasks(products) == [i \in 1..Len(products) |-> NewTask(products[i])]

Finished(t) == t.result # "pending"

\* line 107: when gather's future resolves
GatherDone(ts) ==
  IF ReturnExceptions
    THEN \A i \in 1..Len(ts) : Finished(ts[i])
    ELSE \/ \A i \in 1..Len(ts) : Finished(ts[i])
         \/ \E i \in 1..Len(ts) : ts[i].result \in Exceptions

GatherExit_reraise(ts) ==
  IF \E i \in 1..Len(ts) : ts[i].result \in Exceptions THEN 1 ELSE 0

\* lines 107, 117: gather either returns the list or re-raises
GatherExit(ts) ==
  IF ReturnExceptions THEN 0
  ELSE IF \E i \in 1..Len(ts) : ts[i].result \in Exceptions THEN 1 ELSE 0

Op(op, arn, res, val, clock) ==
  [op |-> op, arn |-> arn, res |-> res, val |-> val, t |-> clock]

\* a task ends: returned None, or an exception left the coroutine
EndTask(t, res) == [t EXCEPT !.pc = "done", !.result = res]

\* an exception raised in the body of get_product_page
RaiseInUnit(t, exc) ==
  EndTask(t, IF CaughtByUnit(exc) THEN "None" ELSE exc)

\* ------------------------------------------------------------------ Init
Init ==
  /\ now = 0
  /\ table = [key \in Keys |-> NoItem]
  /\ lastPub = [key \in Keys |-> NoTime]
  /\ disk \in CONFIG_FILE
  /\ main = [p \in Procs |-> "idle"]
  /\ exit_code = [p \in Procs |-> -1]
  /\ cfgfile = [p \in Procs |-> "unreadable"]
  /\ config = [p \in Procs |-> << >>]
  /\ tasks = [p \in Procs |-> << >>]
  /\ running = [p \in Procs |-> 0]

\* ------------------------------------------------------------ the process
\* lines 110-116: a process starts and reads config.json; a file that cannot
\* be opened or parsed prints the error and exits 1
StartProcess(p) ==
  /\ main[p] \in {"idle", "exited"}
  /\ LET f == disk IN
       /\ cfgfile' = [cfgfile EXCEPT ![p] = f]
       /\ config' = [config EXCEPT ![p] = LoadConfig(f)]
       /\ IF ConfigLoads(f)
            THEN /\ main' = [main EXCEPT ![p] = "loaded"]
                 /\ exit_code' = [exit_code EXCEPT ![p] = -1]
            ELSE /\ main' = [main EXCEPT ![p] = "exited"]
                 /\ exit_code' = [exit_code EXCEPT ![p] = 1]
  /\ tasks' = [tasks EXCEPT ![p] = << >>]
  /\ running' = [running EXCEPT ![p] = 0]
  /\ UNCHANGED <<now, table, lastPub, disk>>

\* a run is started when no other run is in progress
Main(p) ==
  /\ \A q \in Procs : main[q] \in {"idle", "exited"}
  /\ StartProcess(p)

\* lines 117-118 and 100-106: config["products"] (KeyError ends the process
\* with a traceback), then one task per product, then gather is awaited
get_all_product_pages(p) ==
  /\ main[p] = "loaded"
  /\ IF HasProducts(cfgfile[p])
       THEN /\ tasks' = [tasks EXCEPT ![p] = MakeTasks(config[p])]
            /\ main' = [main EXCEPT ![p] = "gathering"]
            /\ UNCHANGED exit_code
       ELSE /\ main' = [main EXCEPT ![p] = "exited"]
            /\ exit_code' = [exit_code EXCEPT ![p] = 1]
            /\ UNCHANGED tasks
  /\ UNCHANGED <<now, table, lastPub, disk, cfgfile, config,
                 running>>

\* line 107 and the return of run_until_complete
Gather(p) ==
  /\ main[p] = "gathering"
  /\ running[p] = 0
  /\ GatherDone(tasks[p])
  /\ main' = [main EXCEPT ![p] = "exited"]
  /\ exit_code' = [exit_code EXCEPT ![p] = GatherExit(tasks[p])]
  /\ UNCHANGED <<now, table, lastPub, disk, cfgfile, config,
                 tasks, running>>

\* --------------------------------------------------------------- the unit
LoopFree_yielding(p) == main[p] = "gathering"

\* the event loop of process p can resume a suspended task
LoopFree(p) == main[p] = "gathering" /\ running[p] = 0

SetTask(p, i, t) == tasks' = [tasks EXCEPT ![p][i] = t]

\* lines 70-82: the task runs up to the await of session.get
StartTask(p, i) ==
  /\ LoopFree(p)
  /\ tasks[p][i].pc = "scheduled"
  /\ SetTask(p, i, [tasks[p][i] EXCEPT !.pc = "get"])
  /\ UNCHANGED <<now, table, lastPub, main, exit_code,
                 disk, cfgfile, config, running>>

\* lines 73-86: the response headers arrive, or the request fails; on
\* success the task runs up to the await of response.text()
ResponseArrives(p, i) ==
  /\ LoopFree(p)
  /\ tasks[p][i].pc = "get"
  /\ \E out \in {"ok", "TimeoutError", "ClientError"} :
       IF out = "ok"
         THEN SetTask(p, i, [tasks[p][i] EXCEPT !.pc = "text"])
         ELSE SetTask(p, i, RaiseInUnit(
                [tasks[p][i] EXCEPT !.fetch =
                   IF out = "TimeoutError" THEN "Timeout" ELSE "TransportError"],
                out))
  /\ UNCHANGED <<now, table, lastPub, main, exit_code,
                 disk, cfgfile, config, running>>

\* lines 39-44: notify() is entered; boto3.resource() can raise before the
\* loop binds arn, and then the handler at line 67 raises UnboundLocalError
EnterNotify(t, resources_ok) ==
  IF ~resources_ok THEN RaiseInUnit(t, "UnboundLocalError")
  ELSE IF Len(t.product.snsTopicArns) = 0 THEN EndTask(t, "None")
  ELSE [t EXCEPT !.pc = "get_item", !.k = 1]

\* lines 86-95: the body arrives (or the read fails), the button state is
\* extracted and notify() is called for ADD_TO_CART
AfterText(t, body, resources_ok) ==
  LET u == [t EXCEPT !.fetch = "Success", !.body = body]
      x == Extract(body)
  IN  IF x \in Exceptions THEN RaiseInUnit(u, x)
      ELSE IF x = "skip" THEN EndTask(u, "None")
      ELSE IF CallsNotify(x) THEN EnterNotify(u, resources_ok)
      ELSE EndTask(u, "None")

TextArrives(p, i) ==
  /\ LoopFree(p)
  /\ tasks[p][i].pc = "text"
  /\ \E out \in {"ok", "TimeoutError", "ClientError"} :
       IF out = "ok"
         THEN \E body \in Bodies, resources_ok \in BOOLEAN :
                LET u == AfterText(tasks[p][i], body, resources_ok)
                IN  /\ SetTask(p, i, u)
                    /\ running' = [running EXCEPT ![p] =
                                     IF u.pc = "done" THEN 0 ELSE i]
         ELSE /\ SetTask(p, i, RaiseInUnit(
                     [tasks[p][i] EXCEPT !.fetch =
                        IF out = "TimeoutError" THEN "Timeout"
                        ELSE "TransportError"],
                     out))
              /\ UNCHANGED running
  /\ UNCHANGED <<now, table, lastPub, main, exit_code,
                 disk, cfgfile, config>>

\* ------------------------------------------------------------- notify()
Arn(t) == t.product.snsTopicArns[t.k]
KeyOf(t) == <<t.product.url, Arn(t)>>

\* the calls a task made on the table and on SNS, in order: the call, its
\* arn, whether it returned ("ok") or raised ("error"), the item returned or
\* written, and the clock
Log(t, op, res, val, clock) == Append(t.ops, Op(op, Arn(t), res, val, clock))

\* line 45: the for loop moves to the next arn, or notify() returns
NextArn(t) ==
  IF t.k < Len(t.product.snsTopicArns)
    THEN [t EXCEPT !.pc = "get_item", !.k = t.k + 1]
    ELSE EndTask(t, "None")

\* lines 66-67: an exception inside the loop ends notify(), which returns
Except(t) == EndTask(t, "None")

AfterGetItem_failOpen(t, ok, item, clock) ==
  IF ~ok
    THEN [t EXCEPT !.pc = "publish",
                   !.ops = Log(t, "get_item", "error", NoItem, clock)]
  ELSE IF ItemIsNone(item, clock)
    THEN [t EXCEPT !.pc = "publish",
                   !.ops = Log(t, "get_item", "ok", item, clock)]
  ELSE NextArn([t EXCEPT !.ops = Log(t, "get_item", "ok", item, clock)])

AfterGetItem_refresh(t, ok, item, clock) ==
  IF ~ok
    THEN Except([t EXCEPT !.ops = Log(t, "get_item", "error", NoItem, clock)])
  ELSE IF ItemIsNone(item, clock)
    THEN [t EXCEPT !.pc = "publish",
                   !.ops = Log(t, "get_item", "ok", item, clock)]
  ELSE [t EXCEPT !.pc = "put_item",
                 !.ops = Log(t, "get_item", "ok", item, clock)]

\* lines 46-48 and 63-65: table.get_item and the branch on the item
AfterGetItem(t, ok, item, clock) ==
  IF ~ok
    THEN Except([t EXCEPT !.ops = Log(t, "get_item", "error", NoItem, clock)])
  ELSE IF ItemIsNone(item, clock)
    THEN [t EXCEPT !.pc = "publish",
                   !.ops = Log(t, "get_item", "ok", item, clock)]
  ELSE NextArn([t EXCEPT !.ops = Log(t, "get_item", "ok", item, clock)])

AfterPublish_noPut(t, ok, clock) ==
  IF ok
    THEN NextArn([t EXCEPT !.ops = Log(t, "publish", "ok", NoItem, clock)])
    ELSE Except([t EXCEPT !.ops = Log(t, "publish", "error", NoItem, clock)])

AfterPublish_swallowError(t, ok, clock) ==
  [t EXCEPT !.pc = "put_item",
            !.ops = Log(t, "publish", IF ok THEN "ok" ELSE "error", NoItem,
                        clock)]

\* lines 49-57: topic.publish, then on to put_item
AfterPublish(t, ok, clock) ==
  IF ok
    THEN [t EXCEPT !.pc = "put_item",
                   !.ops = Log(t, "publish", "ok", NoItem, clock)]
    ELSE Except([t EXCEPT !.ops = Log(t, "publish", "error", NoItem, clock)])

\* lines 58-62: table.put_item, then the next arn
AfterPutItem(t, ok, clock) ==
  IF ok
    THEN NextArn([t EXCEPT
                    !.ops = Log(t, "put_item", "ok", NewInStock(clock), clock)])
    ELSE Except([t EXCEPT !.ops = Log(t, "put_item", "error", NoItem, clock)])

\* the synchronous section of task i ends with the task
Release(p, u) ==
  running' = [running EXCEPT ![p] = IF u.pc = "done" THEN 0 ELSE @]

InNotify(p, i, pc) ==
  /\ main[p] = "gathering"
  /\ running[p] = i
  /\ tasks[p][i].pc = pc

GetItem_reserving(p, i) ==
  /\ InNotify(p, i, "get_item")
  /\ \E ok \in BOOLEAN :
       LET t == tasks[p][i]
           u == AfterGetItem(t, ok, table[KeyOf(t)], now)
       IN  /\ SetTask(p, i, u)
           /\ Release(p, u)
           /\ IF ok /\ table[KeyOf(t)] = NoItem
                THEN table' = [table EXCEPT ![KeyOf(t)] = NewInStock(now)]
                ELSE UNCHANGED table
  /\ UNCHANGED <<now, lastPub, main, exit_code, disk, cfgfile, config>>

\* line 46: table.get_item reads the record of (url, arn), or raises
GetItem(p, i) ==
  /\ InNotify(p, i, "get_item")
  /\ \E ok \in BOOLEAN :
       LET t == tasks[p][i]
           u == AfterGetItem(t, ok, table[KeyOf(t)], now)
       IN  SetTask(p, i, u) /\ Release(p, u)
  /\ UNCHANGED <<now, table, lastPub, main, exit_code,
                 disk, cfgfile, config>>

Publish(p, i) ==
  /\ InNotify(p, i, "publish")
  /\ \E ok \in BOOLEAN :
       LET t == tasks[p][i]
           u == AfterPublish(t, ok, now)
       IN  /\ SetTask(p, i, u)
           /\ Release(p, u)
           /\ IF ok
                THEN lastPub' = [lastPub EXCEPT ![KeyOf(t)] = now]
                ELSE UNCHANGED lastPub
  /\ UNCHANGED <<now, table, main, exit_code, disk, cfgfile, config>>

PutItem(p, i) ==
  /\ InNotify(p, i, "put_item")
  /\ \E ok \in BOOLEAN :
       LET t == tasks[p][i]
           u == AfterPutItem(t, ok, now)
       IN  /\ SetTask(p, i, u)
           /\ Release(p, u)
           /\ IF ok
                THEN table' = [table EXCEPT ![KeyOf(t)] = NewInStock(now)]
                ELSE UNCHANGED table
  /\ UNCHANGED <<now, lastPub, main, exit_code, disk, cfgfile,
                 config>>

\* ------------------------------------------------------- the environment
\* The program observes the clock and the table only inside notify() (lines
\* 46, 58, 61, 64).  A step of the environment commutes with every other step
\* of the program, so it is taken right before the step that observes it:
\* while some task is inside the loop of notify().
Observed ==
  \E p \in Procs : \E i \in 1..Len(tasks[p]) :
    tasks[p][i].pc \in {"get_item", "publish", "put_item"}

\* the wall clock read at lines 61 and 64 advances: to the very end of a
\* cooldown window, or just past it
Tick ==
  /\ Observed
  /\ \E d \in TickSteps :
       /\ now + d <= MaxTicks * (IN_STOCK_EXP + 1)
       /\ now' = now + d
  /\ UNCHANGED <<table, lastPub, main, exit_code, disk, cfgfile,
                 config, tasks, running>>

\* the table drops a record once its inStock time has passed
Expire ==
  /\ Observed
  /\ \E key \in Keys :
       /\ table[key] # NoItem
       /\ table[key] <= now
       /\ table' = [table EXCEPT ![key] = NoItem]
  /\ UNCHANGED <<now, lastPub, main, exit_code, disk, cfgfile,
                 config, tasks, running>>

\* -------------------------------------------------------- specifications
Units(p) == 1..Len(tasks[p])

Step(p) ==
  \/ get_all_product_pages(p)
  \/ Gather(p)
  \/ \E i \in Units(p) : StartTask(p, i)
  \/ \E i \in Units(p) : ResponseArrives(p, i)
  \/ \E i \in Units(p) : TextArrives(p, i)
  \/ \E i \in Units(p) : GetItem(p, i)
  \/ \E i \in Units(p) : Publish(p, i)
  \/ \E i \in Units(p) : PutItem(p, i)

\* runs do not overlap: one process at a time, one run after the other, any
\* number of them
Next ==
  \/ Main("p1")
  \/ Step("p1")
  \/ Tick
  \/ Expire

Spec == Init /\ [][Next]_vars

\* scheduling: the event loop keeps running the ready tasks and every I/O
\* call returns or raises; the clock, the table's expiry and the start of a
\* further run are not forced
SpecFair == Spec /\ WF_vars(Step("p1"))

\* overlapping runs: two processes, each started once at any time, share the
\* table; the clock stands still, so both runs are inside one window
FirstRun(p) == main[p] = "idle" /\ StartProcess(p)

NextOverlap ==
  \/ \E p \in Procs : FirstRun(p)
  \/ \E p \in Procs : Step(p)

SpecOverlap == Init /\ [][NextOverlap]_vars

\* ================================================================ claims
\* the tasks of all processes
TaskSet == UNION {{tasks[p][i] : i \in Units(p)} : p \in Procs}

Ops(t) == {t.ops[n] : n \in 1..Len(t.ops)}
OpsFor(t, op, arn) == {n \in 1..Len(t.ops) :
                         t.ops[n].op = op /\ t.ops[n].arn = arn}
OkOpsFor(t, op, arn) == {n \in OpsFor(t, op, arn) : t.ops[n].res = "ok"}
ArnsOf(t) == {t.product.snsTopicArns[j] : j \in 1..Len(t.product.snsTopicArns)}

\* the page was downloaded and its button state is ADD_TO_CART
Available(t) ==
  /\ t.fetch = "Success"
  /\ t.body.component /\ t.body.data /\ t.body.json = "ADD_TO_CART"

\* the task is at, or past, the gate of arn
GateOver(t, arn) == t.pc = "done" \/ Arn(t) # arn

\* C1: a lookup, publish or write is made for a product only if its page was
\* fetched and its button state is the available one; after a timeout, a
\* transport error, a missing block or fragment or any other button state
\* the task makes no call for any target.
C1_NotifyOnlyIfAvailable ==
  \A t \in TaskSet :
    (t.ops # << >> \/ t.pc \in {"get_item", "publish", "put_item"})
      => Available(t)

C1_Witness ==
  /\ \E t \in TaskSet : Available(t) /\ OkOpsFor(t, "publish", "t1") # {}
  /\ \E t \in TaskSet : /\ t.pc = "done" /\ t.fetch = "Success"
                        /\ t.body.json = "SOLD_OUT" /\ t.ops = << >>

\* C2 as stated: a lookup that finds no record is followed by exactly one
\* publish and exactly one written record for the pair; a lookup that finds
\* the record is followed by no publish and no write.
C2_FirstEvaluationPublishesAndWrites ==
  \A t \in TaskSet : \A n \in 1..Len(t.ops) :
    LET o == t.ops[n] IN
    (o.op = "get_item" /\ o.res = "ok") =>
      IF o.val = NoItem
        THEN GateOver(t, o.arn) =>
               /\ Cardinality(OpsFor(t, "publish", o.arn)) = 1
               /\ Cardinality(OkOpsFor(t, "put_item", o.arn)) = 1
        ELSE /\ OpsFor(t, "publish", o.arn) = {}
             /\ OpsFor(t, "put_item", o.arn) = {}

\* C2 amended: a lookup that finds no record is followed by exactly one call
\* of publish; put_item is called exactly once if that publish returned and
\* not at all if it raised, so at most one record is written; a lookup that
\* finds the record is followed by no publish and no write.
C2_FirstEvaluationAmended ==
  \A t \in TaskSet : \A n \in 1..Len(t.ops) :
    LET o == t.ops[n] IN
    (o.op = "get_item" /\ o.res = "ok") =>
      IF o.val = NoItem
        THEN GateOver(t, o.arn) =>
               /\ Cardinality(OpsFor(t, "publish", o.arn)) = 1
               /\ Cardinality(OpsFor(t, "put_item", o.arn)) =
                    Cardinality(OkOpsFor(t, "publish", o.arn))
               /\ Cardinality(OkOpsFor(t, "put_item", o.arn)) <= 1
        ELSE /\ OpsFor(t, "publish", o.arn) = {}
             /\ OpsFor(t, "put_item", o.arn) = {}

C2_Witness ==
  \E t, u \in TaskSet :
    /\ t # u /\ t.product.url = u.product.url
    /\ t.pc = "done" /\ u.pc = "done"
    /\ \E n \in OkOpsFor(t, "get_item", "t1") : t.ops[n].val = NoItem
    /\ OkOpsFor(t, "publish", "t1") # {} /\ OkOpsFor(t, "put_item", "t1") # {}
    /\ \E n \in OkOpsFor(u, "get_item", "t1") : u.ops[n].val # NoItem
    /\ OpsFor(u, "publish", "t1") = {}

\* C3: a publish for a (url, arn) pair comes at least one cooldown window
\* after the previous publish for that pair.
C3_AtMostOncePerWindow ==
  [][\A p \in Procs : \A i \in Units(p) :
       (tasks[p][i].pc = "publish" /\ tasks'[p][i].pc = "put_item") =>
         \/ lastPub[KeyOf(tasks[p][i])] = NoTime
         \/ now - lastPub[KeyOf(tasks[p][i])] >= IN_STOCK_EXP]_vars

\* C4: a lookup that returns a record is never followed by a publish to that
\* arn in the unit, whether the record's inStock time is ahead of the clock
\* or behind it.
C4_RecordBlocksPublish ==
  \A t \in TaskSet : \A n \in 1..Len(t.ops) :
    LET o == t.ops[n] IN
    (o.op = "get_item" /\ o.res = "ok" /\ o.val # NoItem) =>
      /\ OpsFor(t, "publish", o.arn) = {}
      /\ ~(t.pc \in {"publish", "put_item"} /\ Arn(t) = o.arn)

C4_Witness ==
  \E t \in TaskSet : \E n \in 1..Len(t.ops) :
    /\ t.ops[n].op = "get_item" /\ t.ops[n].res = "ok"
    /\ t.ops[n].val # NoItem /\ t.ops[n].val < t.ops[n].t
    /\ t.pc = "done"

\* C5: once notify() has run for a product, every target of the product
\* has been looked up, also the targets after one whose call failed.
C5_FailureContained ==
  \A t \in TaskSet :
    (t.pc = "done" /\ t.ops # << >>) =>
      \A arn \in ArnsOf(t) : OpsFor(t, "get_item", arn) # {}

\* every call the task made returned, and the task returned
OwnCallsOk(t) == t.result = "None" /\ \A o \in Ops(t) : o.res = "ok"

\* every target was looked up, and published to and recorded on a miss
Complete(t) ==
  \A arn \in ArnsOf(t) :
    \E n \in OkOpsFor(t, "get_item", arn) :
      t.ops[n].val = NoItem =>
        OkOpsFor(t, "publish", arn) # {} /\ OkOpsFor(t, "put_item", arn) # {}

\* C6: when the run returns it returns normally, every task has finished, a
\* product whose fetch failed made no call, and an available product whose
\* own calls all returned has gated every target, whatever happened to the
\* other tasks of the run.
C6_SiblingsUnaffected ==
  \A p \in Procs :
    (main[p] = "exited" /\ tasks[p] # << >>) =>
      /\ exit_code[p] = 0
      /\ \A i \in Units(p) :
           LET t == tasks[p][i] IN
           /\ t.pc = "done" /\ Finished(t)
           /\ t.fetch # "Success" => t.ops = << >>
           /\ (Available(t) /\ OwnCallsOk(t)) => Complete(t)

C6_Witness ==
  \E p \in Procs :
    /\ main[p] = "exited" /\ exit_code[p] = 0
    /\ \E i, j \in Units(p) :
         /\ tasks[p][i].fetch = "Timeout" /\ tasks[p][i].ops = << >>
         /\ Available(tasks[p][j]) /\ Complete(tasks[p][j])
         /\ OkOpsFor(tasks[p][j], "put_item", "t1") # {}

\* C7: a lookup that raises is followed by no publish and no write for that
\* target, and the task returns normally.
C7_LookupFailClosed ==
  \A t \in TaskSet : \A n \in 1..Len(t.ops) :
    LET o == t.ops[n] IN
    (o.op = "get_item" /\ o.res = "error") =>
      /\ OpsFor(t, "publish", o.arn) = {}
      /\ OpsFor(t, "put_item", o.arn) = {}
      /\ t.pc = "done" /\ t.result = "None"

C7_Witness ==
  \E p \in Procs : \E i \in Units(p) :
    /\ main[p] = "exited" /\ exit_code[p] = 0
    /\ \E o \in Ops(tasks[p][i]) : o.op = "get_item" /\ o.res = "error"

\* C8: when put_item raises for a target, no publish to that target has
\* been made in the unit.
C8_WriteFailClosed ==
  \A t \in TaskSet : \A n \in 1..Len(t.ops) :
    LET o == t.ops[n] IN
    (o.op = "put_item" /\ o.res = "error") =>
      OkOpsFor(t, "publish", o.arn) = {}

ConfigOk(f) == ConfigLoads(f) /\ HasProducts(f)

\* the process has launched its tasks
Launched(p) == main[p] \in {"gathering", "exited"} /\ ConfigOk(cfgfile[p])

C9_OneUnitPerProduct ==
  \A p \in Procs :
    Launched(p) =>
      /\ Len(tasks[p]) = Len(config[p])
      /\ \A i \in Units(p) : tasks[p][i].product = config[p][i]
      /\ main[p] = "exited" =>
           \A i \in Units(p) : tasks[p][i].pc = "done" /\ Finished(tasks[p][i])

\* C9: the run has exactly one task per configured product, every task has
\* finished when the run returns, and a run that has launched its tasks
\* eventually returns.
C9_RunReturns ==
  /\ []C9_OneUnitPerProduct
  /\ \A p \in Procs : (main[p] = "gathering") ~> (main[p] = "exited")

C9_Witness ==
  \E p \in Procs :
    /\ main[p] = "exited" /\ Len(tasks[p]) = 2
    /\ \A i \in Units(p) : tasks[p][i].pc = "done"
    /\ \E i \in Units(p) : tasks[p][i].result \in Exceptions

\* C10: a process that has exited has exit code 1 exactly when config.json
\* did not yield the product list, and then it launched no task; with the
\* products loaded it exits 0 whatever its tasks ran into.
C10_ExitCode ==
  \A p \in Procs :
    main[p] = "exited" =>
      /\ exit_code[p] \in {0, 1}
      /\ exit_code[p] # 0 <=> ~ConfigOk(cfgfile[p])
      /\ exit_code[p] # 0 => tasks[p] = << >>

C10_Witness ==
  \E p \in Procs :
    /\ main[p] = "exited" /\ exit_code[p] = 0
    /\ \E i \in Units(p) : tasks[p][i].result \in Exceptions
    /\ \E i \in Units(p) : \E o \in Ops(tasks[p][i]) : o.res = "error"

\* notify() was called for the task's product
Gated(t) ==
  \/ t.ops # << >>
  \/ t.pc \in {"get_item", "publish", "put_item"}
  \/ t.result = "UnboundLocalError"

\* C11 as stated: ADD_TO_CART and CHECK_STORES are Available and notify() is
\* called for both; SOLD_OUT is Unavailable and a page without the marker is
\* Unknown, and notify() is called for neither.
C11_CheckStoresIsAvailable ==
  \A t \in TaskSet :
    t.fetch = "Success" =>
      /\ t.body.json \in {"ADD_TO_CART", "CHECK_STORES"} =>
           Availability(t.body) = "Available" /\ Gated(t)
      /\ t.body.json = "SOLD_OUT" =>
           Availability(t.body) = "Unavailable" /\ ~Gated(t)
      /\ (~t.body.component \/ ~t.body.data) =>
           Availability(t.body) = "Unknown" /\ ~Gated(t)

\* C11 amended: only ADD_TO_CART is Available and has notify() called;
\* CHECK_STORES and SOLD_OUT are Unavailable and a page without the component
\* block or the data fragment is Unknown, and notify() is called for none of
\* them.
C11_OnlyAddToCartIsAvailable ==
  \A t \in TaskSet :
    t.fetch = "Success" =>
      /\ t.body.json = "ADD_TO_CART" =>
           Availability(t.body) = "Available" /\ Gated(t)
      /\ t.body.json \in {"CHECK_STORES", "SOLD_OUT"} =>
           Availability(t.body) = "Unavailable" /\ ~Gated(t)
      /\ (~t.body.component \/ ~t.body.data) =>
           Availability(t.body) = "Unknown" /\ ~Gated(t)

C11_Witness ==
  /\ \E t \in TaskSet : /\ t.pc = "done" /\ t.fetch = "Success"
                        /\ t.body.json = "CHECK_STORES" /\ t.ops = << >>
  /\ \E t \in TaskSet : /\ t.pc = "done" /\ t.body.json = "ADD_TO_CART"
                        /\ OpsFor(t, "get_item", "t1") # {}

\* C12: a page whose embedded data does not parse, or lacks the buttonState
\* field, ends the unit normally (the task returns, no exception leaves it)
\* and without any call of notify().
C12_ExtractionNeverRaises ==
  \A t \in TaskSet :
    (t.fetch = "Success" /\ t.body.json \in {"malformed", "no_buttonState"}) =>
      /\ Availability(t.body) = "Unknown"
      /\ t.pc = "done" /\ t.result = "None" /\ ~Gated(t)

\* C13 as stated: a lookup that returns a record whose inStock time has
\* passed is followed by a publish to that arn and a write of a new record.
C13_ExpiredRecordNotifies ==
  \A t \in TaskSet : \A n \in 1..Len(t.ops) :
    LET o == t.ops[n] IN
    (/\ o.op = "get_item" /\ o.res = "ok"
     /\ o.val # NoItem /\ o.val < o.t
     /\ GateOver(t, o.arn)) =>
      /\ OpsFor(t, "publish", o.arn) # {}
      /\ OpsFor(t, "put_item", o.arn) # {}

\* C13 amended: a lookup that returns a record whose inStock time has passed
\* is followed by no publish and no write for that arn: the record still
\* suppresses, and is not overwritten, for as long as the table returns it.
C13_ExpiredRecordStillSuppresses ==
  \A t \in TaskSet : \A n \in 1..Len(t.ops) :
    LET o == t.ops[n] IN
    (/\ o.op = "get_item" /\ o.res = "ok"
     /\ o.val # NoItem /\ o.val <= o.t) =>
      /\ OkOpsFor(t, "publish", o.arn) = {}
      /\ OpsFor(t, "put_item", o.arn) = {}
      /\ n = Len(t.ops) \/ t.ops[n + 1].arn # o.arn

C13_Witness ==
  \E t \in TaskSet : \E n \in 1..Len(t.ops) :
    /\ t.ops[n].op = "get_item" /\ t.ops[n].res = "ok"
    /\ t.ops[n].val # NoItem /\ t.ops[n].val < t.ops[n].t
    /\ t.pc = "done" /\ t.result = "None"
    /\ table[<<t.product.url, t.ops[n].arn>>] = t.ops[n].val

\* C14: a transport failure of the download other than a timeout ends the
\* unit as a timeout does: the task returns, no exception leaves it, and no
\* call of notify() is made.
C14_TransportErrorContained ==
  \A t \in TaskSet :
    t.fetch \in {"Timeout", "TransportError"} =>
      t.pc = "done" /\ t.result = "None" /\ ~Gated(t)

\* the step is a call of op by task i of process p, with result res
Called(p, i, op, res) ==
  /\ i \in DOMAIN tasks'[p]
  /\ Len(tasks'[p][i].ops) = Len(tasks[p][i].ops) + 1
  /\ tasks'[p][i].ops[Len(tasks'[p][i].ops)].op = op
  /\ tasks'[p][i].ops[Len(tasks'[p][i].ops)].res = res

\* C16: every record the gate writes holds the clock second of the write plus
\* IN_STOCK_EXP, the one window used for every product and every arn: each
\* put_item that returned wrote its clock plus IN_STOCK_EXP, and each step
\* that sets a record sets it to now + IN_STOCK_EXP.
C16_RecordIsNowPlusWindow ==
  /\ [](\A t \in TaskSet : \A o \in Ops(t) :
          (o.op = "put_item" /\ o.res = "ok") => o.val = o.t + IN_STOCK_EXP)
  /\ [][\A key \in Keys :
          (table'[key] # table[key] /\ table'[key] # NoItem) =>
            table'[key] = now + IN_STOCK_EXP]_vars

C16_Witness ==
  /\ table[<<"u1", "t1">>] = IN_STOCK_EXP
  /\ table[<<"u1", "t2">>] > IN_STOCK_EXP
  /\ \E t \in TaskSet :
       /\ t.product.title = "A" /\ t.pc = "done"
       /\ OkOpsFor(t, "put_item", "t1") # {}
       /\ OkOpsFor(t, "put_item", "t2") # {}

\* C17: for one arn a unit calls get_item, then publish, then put_item: a
\* publish follows a lookup of that arn that found no item, a put_item
\* follows a publish to that arn that returned, nothing follows a publish
\* that raised, and a publish step leaves the table as it was.
C17_LookupPublishWrite ==
  /\ [](\A t \in TaskSet : \A n \in 1..Len(t.ops) :
          LET o == t.ops[n] IN
          /\ o.op = "publish" =>
               /\ n >= 2
               /\ t.ops[n - 1].op = "get_item" /\ t.ops[n - 1].res = "ok"
               /\ t.ops[n - 1].val = NoItem /\ t.ops[n - 1].arn = o.arn
          /\ o.op = "put_item" =>
               /\ n >= 3
               /\ t.ops[n - 1].op = "publish" /\ t.ops[n - 1].res = "ok"
               /\ t.ops[n - 1].arn = o.arn
          /\ (o.op = "publish" /\ o.res = "error") =>
               n = Len(t.ops) /\ t.pc = "done")
  /\ [][\A p \in Procs : \A i \in Units(p) :
          (\E res \in {"ok", "error"} : Called(p, i, "publish", res)) =>
            table' = table]_vars

\* a publish to t1 raised in one unit, the pair has no record, and the next
\* lookup of the pair found no item and published again
C17_Witness ==
  \E t, u \in TaskSet :
    /\ t # u
    /\ \E n \in OpsFor(t, "publish", "t1") : t.ops[n].res = "error"
    /\ OpsFor(t, "put_item", "t1") = {}
    /\ \E n \in OkOpsFor(u, "get_item", "t1") : u.ops[n].val = NoItem
    /\ OkOpsFor(u, "publish", "t1") # {}

\* C18: while a unit is inside notify() no other unit of its process takes a
\* step; and two units of one process that both published to the same pair
\* less than IN_STOCK_EXP apart did not both write the record, so when the
\* first publish and write succeed the second unit does not publish.
C18_GateLoopDoesNotYield ==
  /\ [](\A p \in Procs : \A i, j \in Units(p) : \A arn \in Arns :
          (/\ i # j
           /\ tasks[p][i].product.url = tasks[p][j].product.url
           /\ \E a \in OkOpsFor(tasks[p][i], "publish", arn) :
                \E c \in OkOpsFor(tasks[p][j], "publish", arn) :
                  LET d == tasks[p][i].ops[a].t - tasks[p][j].ops[c].t
                  IN  d < IN_STOCK_EXP /\ 0 - d < IN_STOCK_EXP) =>
            \/ OkOpsFor(tasks[p][i], "put_item", arn) = {}
            \/ OkOpsFor(tasks[p][j], "put_item", arn) = {})
  /\ [][\A p \in Procs :
          running[p] # 0 =>
            \A j \in Units(p) \ {running[p]} : tasks'[p][j] = tasks[p][j]]_vars

\* a finished run in which both units of the pair (u1, t1) saw ADD_TO_CART,
\* the first published and wrote and the second found the record
C18_Witness ==
  \E p \in Procs : \E i, j \in Units(p) :
    /\ i # j
    /\ Available(tasks[p][i]) /\ Available(tasks[p][j])
    /\ OkOpsFor(tasks[p][i], "publish", "t1") # {}
    /\ OkOpsFor(tasks[p][i], "put_item", "t1") # {}
    /\ \E n \in OkOpsFor(tasks[p][j], "get_item", "t1") :
         tasks[p][j].ops[n].val # NoItem
    /\ OpsFor(tasks[p][j], "publish", "t1") = {}
    /\ main[p] = "exited"

\* C19: a unit calls put_item only for an arn of its own product, whose page
\* said ADD_TO_CART, right after its own lookup of that arn found no item and
\* its publish; a lookup leaves the table unchanged; and a record changes
\* only by a put_item that returned, which sets it, or by the table's own
\* expiry of a record whose time has passed, never by a delete of the program.
C19_WritesOnlyAfterMiss ==
  /\ [](\A t \in TaskSet : \A n \in 1..Len(t.ops) :
          t.ops[n].op = "put_item" =>
            /\ t.ops[n].arn \in ArnsOf(t)
            /\ Available(t)
            /\ n >= 3
            /\ t.ops[n - 2].op = "get_item" /\ t.ops[n - 2].res = "ok"
            /\ t.ops[n - 2].val = NoItem /\ t.ops[n - 2].arn = t.ops[n].arn)
  /\ [][/\ \A p \in Procs : \A i \in Units(p) :
             (\E res \in {"ok", "error"} : Called(p, i, "get_item", res)) =>
               table' = table
        /\ \A key \in Keys :
             table'[key] # table[key] =>
               \/ /\ table'[key] # NoItem
                  /\ \E p \in Procs : \E i \in Units(p) :
                       /\ Called(p, i, "put_item", "ok")
                       /\ KeyOf(tasks[p][i]) = key
               \/ /\ table'[key] = NoItem
                  /\ tasks' = tasks
                  /\ table[key] <= now]_vars

\* a record was written after a miss, and a later lookup that found it left
\* it in place
C19_Witness ==
  \E t, u \in TaskSet :
    /\ \E n \in OkOpsFor(t, "put_item", "t1") :
         /\ table[<<"u1", "t1">>] = t.ops[n].val
         /\ \E h \in OkOpsFor(u, "get_item", "t1") :
              u.ops[h].val = t.ops[n].val
    /\ u.pc = "done"
    /\ OpsFor(u, "put_item", "t1") = {}

\* C15: the lookup and the write of a pair are two separate calls on the
\* shared table: a get_item that finds no item leaves the table as it was
\* (it reserves nothing), and a put_item that returns stores its record
\* whatever the table holds by then (it is not conditional); so with two
\* overlapping processes both can find no item before either writes, and
\* both publish to the same arn inside one window.
C15_LookupThenWriteNotAtomic ==
  [][\A p \in Procs : \A i \in Units(p) :
       /\ (\E res \in {"ok", "error"} : Called(p, i, "get_item", res)) =>
            table' = table
       /\ Called(p, i, "put_item", "ok") =>
            table' = [table EXCEPT ![KeyOf(tasks[p][i])] = NewInStock(now)]
    ]_vars

\* both processes found no item for (u1, t1) and published to t1 at the same
\* clock second, and neither has written the record yet
C15_Witness ==
  \E i \in Units("p1") : \E j \in Units("p2") :
    LET t == tasks["p1"][i]
        u == tasks["p2"][j]
    IN  /\ t.pc = "put_item" /\ u.pc = "put_item"
        /\ KeyOf(t) = <<"u1", "t1">> /\ KeyOf(u) = <<"u1", "t1">>
        /\ table[<<"u1", "t1">>] = NoItem
        /\ \E n \in OkOpsFor(t, "get_item", "t1") : t.ops[n].val = NoItem
        /\ \E n \in OkOpsFor(u, "get_item", "t1") : u.ops[n].val = NoItem
        /\ \E n \in OkOpsFor(t, "publish", "t1") :
             \E m \in OkOpsFor(u, "publish", "t1") : t.ops[n].t = u.ops[m].t

====
